---- MODULE Spec2Model ----
(***************************************************************************)
(* Order status transition engine of the bookstore backend.                *)
(*                                                                         *)
(* One order is followed from its creation through PATCH requests on       *)
(* /orders/<id>: OrderViewSet (authentication, get_orders scoping),        *)
(* OrderSerializer (the writable fields of each role) and                  *)
(* OrderUpdater.run (field guard, deliverer, address, intent, transition,  *)
(* save).                                                                  *)
(***************************************************************************)
EXTENDS Integers, Sequences, FiniteSets, TLC

VARIABLES order, history, last, procs, committed, saves,
          cart, placed, created, placing

vars == <<order, history, last, procs, committed, saves, cart, placed, created,
          placing>>

\* the carts, the orders placed from them, the answer to the last placement
\* and the placements under way
shop == <<cart, placed, created, placing>>

----------------------------------------------------------------------------
(* Bounds *)

\* number of saves of the order that are followed from its initial state
MaxTime == 1

\* number of fields one change-set carries in the enumerated requests
MaxFields == 2

\* number of saves of the order that are followed when two workers run at once
MaxConcSaves == 2

\* number of orders that are placed from the carts
MaxOrders == 1

\* number of orders that concurrent placements insert
MaxConcOrders == 2

----------------------------------------------------------------------------
(* Values *)

Absent == "absent"          \* key not in the dict (dict.get gives None)
None == "null"              \* key present with value None
NoExc == "none"

Statuses ==
    {"pending", "shipped", "delivered", "under-review",
     "cancelled", "refunded", "failed"}

Intents == {"cancellation", "refund"}

Users == {"root", "mgr", "del1", "del2", "cust1", "anon"}

\* the users again, with the accounts that hold more than one role flag and
\* a second customer, who is in a group that is no role
Accounts == Users \cup {"cust2", "mgrdel", "rootmgr"}

Addresses == {"a1", "a2"}

\* the user's flags and groups, as request.user exposes them
UserAttr(u) ==
    CASE u = "root"  -> [is_superuser |-> TRUE,  groups |-> {},           is_authenticated |-> TRUE]
      [] u = "mgr"   -> [is_superuser |-> FALSE, groups |-> {"manager"},  is_authenticated |-> TRUE]
      [] u = "del1"  -> [is_superuser |-> FALSE, groups |-> {"delivery"}, is_authenticated |-> TRUE]
      [] u = "del2"  -> [is_superuser |-> FALSE, groups |-> {"delivery"}, is_authenticated |-> TRUE]
      [] u = "cust1" -> [is_superuser |-> FALSE, groups |-> {},           is_authenticated |-> TRUE]
      [] u = "cust2" -> [is_superuser |-> FALSE, groups |-> {"newsletter"}, is_authenticated |-> TRUE]
      [] u = "mgrdel" -> [is_superuser |-> FALSE, groups |-> {"manager", "delivery"}, is_authenticated |-> TRUE]
      [] u = "rootmgr" -> [is_superuser |-> TRUE, groups |-> {"manager", "delivery"}, is_authenticated |-> TRUE]
      [] OTHER       -> [is_superuser |-> FALSE, groups |-> {},           is_authenticated |-> FALSE]

\* owner of each address of the address book
AddressOwner(a) == "cust1"

----------------------------------------------------------------------------
(* config/core/roles.py *)

is_role(user, role) ==
    IF role = "admin"
    THEN UserAttr(user).is_superuser
    ELSE role \in UserAttr(user).groups

\* the resolver with delivery looked up before manager
get_role_delivery_first(user) ==
    IF is_role(user, "admin") THEN "admin"
    ELSE IF is_role(user, "delivery") THEN "delivery"
    ELSE IF is_role(user, "manager") THEN "manager"
    ELSE IF UserAttr(user).is_authenticated THEN "customer"
    ELSE "anonymous"

get_role(user) ==
    IF is_role(user, "admin") THEN "admin"
    ELSE IF is_role(user, "manager") THEN "manager"
    ELSE IF is_role(user, "delivery") THEN "delivery"
    ELSE IF UserAttr(user).is_authenticated THEN "customer"
    ELSE "anonymous"

----------------------------------------------------------------------------
(* store/services/order_updater.py *)

\* the table with manager let into shipped -> delivered
STATUS_TRANSITIONS_manager_delivers ==
    [c \in Statuses |->
        CASE c = "pending" ->
                [t \in {"shipped", "under-review", "failed"} |->
                    CASE t = "shipped"      -> {"admin", "manager"}
                      [] t = "under-review" -> {"admin", "manager", "customer"}
                      [] t = "failed"       -> {"admin", "manager"}]
          [] c = "shipped" ->
                [t \in {"delivered", "under-review"} |->
                    CASE t = "delivered"    -> {"admin", "manager", "delivery"}
                      [] t = "under-review" -> {"admin", "manager", "delivery"}]
          [] c = "delivered" ->
                [t \in {"under-review"} |-> {"admin", "manager", "customer"}]
          [] c = "under-review" ->
                [t \in {"shipped", "cancelled", "refunded", "failed"} |->
                    {"admin", "manager"}]
          [] c = "failed" ->
                [t \in {"under-review"} |-> {"admin", "manager", "customer"}]
          [] OTHER -> [t \in {} |-> {}]]

\* the table with cancelled and refunded orders reopened for review
STATUS_TRANSITIONS_reopen ==
    [c \in Statuses |->
        CASE c = "pending" ->
                [t \in {"shipped", "under-review", "failed"} |->
                    CASE t = "shipped"      -> {"admin", "manager"}
                      [] t = "under-review" -> {"admin", "manager", "customer"}
                      [] t = "failed"       -> {"admin", "manager"}]
          [] c = "shipped" ->
                [t \in {"delivered", "under-review"} |->
                    CASE t = "delivered"    -> {"admin", "delivery"}
                      [] t = "under-review" -> {"admin", "manager", "delivery"}]
          [] c = "under-review" ->
                [t \in {"shipped", "cancelled", "refunded", "failed"} |->
                    {"admin", "manager"}]
          [] OTHER ->
                [t \in {"under-review"} |-> {"admin", "manager", "customer"}]]

\* the table without the edge from under-review to refunded
STATUS_TRANSITIONS_no_refund ==
    [c \in Statuses |->
        CASE c = "pending" ->
                [t \in {"shipped", "under-review", "failed"} |->
                    CASE t = "shipped"      -> {"admin", "manager"}
                      [] t = "under-review" -> {"admin", "manager", "customer"}
                      [] t = "failed"       -> {"admin", "manager"}]
          [] c = "shipped" ->
                [t \in {"delivered", "under-review"} |->
                    CASE t = "delivered"    -> {"admin", "delivery"}
                      [] t = "under-review" -> {"admin", "manager", "delivery"}]
          [] c = "delivered" ->
                [t \in {"under-review"} |-> {"admin", "manager", "customer"}]
          [] c = "under-review" ->
                [t \in {"shipped", "cancelled", "failed"} |->
                    {"admin", "manager"}]
          [] c = "failed" ->
                [t \in {"under-review"} |-> {"admin", "manager", "customer"}]
          [] OTHER -> [t \in {} |-> {}]]

\* the table with a failed delivery reported by the deliverer
STATUS_TRANSITIONS_delivery_fails ==
    [c \in Statuses |->
        CASE c = "pending" ->
                [t \in {"shipped", "under-review", "failed"} |->
                    CASE t = "shipped"      -> {"admin", "manager"}
                      [] t = "under-review" -> {"admin", "manager", "customer"}
                      [] t = "failed"       -> {"admin", "manager"}]
          [] c = "shipped" ->
                [t \in {"delivered", "under-review", "failed"} |->
                    CASE t = "delivered"    -> {"admin", "delivery"}
                      [] t = "under-review" -> {"admin", "manager", "delivery"}
                      [] t = "failed"       -> {"admin", "manager", "delivery"}]
          [] c = "delivered" ->
                [t \in {"under-review"} |-> {"admin", "manager", "customer"}]
          [] c = "under-review" ->
                [t \in {"shipped", "cancelled", "refunded", "failed"} |->
                    {"admin", "manager"}]
          [] c = "failed" ->
                [t \in {"under-review"} |-> {"admin", "manager", "customer"}]
          [] OTHER -> [t \in {} |-> {}]]

STATUS_TRANSITIONS ==
    [c \in Statuses |->
        CASE c = "pending" ->
                [t \in {"shipped", "under-review", "failed"} |->
                    CASE t = "shipped"      -> {"admin", "manager"}
                      [] t = "under-review" -> {"admin", "manager", "customer"}
                      [] t = "failed"       -> {"admin", "manager"}]
          [] c = "shipped" ->
                [t \in {"delivered", "under-review"} |->
                    CASE t = "delivered"    -> {"admin", "delivery"}
                      [] t = "under-review" -> {"admin", "manager", "delivery"}]
          [] c = "delivered" ->
                [t \in {"under-review"} |-> {"admin", "manager", "customer"}]
          [] c = "under-review" ->
                [t \in {"shipped", "cancelled", "refunded", "failed"} |->
                    {"admin", "manager"}]
          [] c = "failed" ->
                [t \in {"under-review"} |-> {"admin", "manager", "customer"}]
          [] OTHER -> [t \in {} |-> {}]]

\* the origins with cancellation let through on every status but delivered
INTENTS_ORIGIN_STATUSES_not_delivered ==
    [i \in Intents |->
        IF i = "cancellation" THEN Statuses \ {"delivered"} ELSE {"delivered"}]

INTENTS_ORIGIN_STATUSES ==
    [i \in Intents |->
        IF i = "cancellation" THEN {"pending", "failed"} ELSE {"delivered"}]

\* title of an OrderStatus, used in the audit text
Title(s) ==
    CASE s = "pending"      -> "Pending"
      [] s = "shipped"      -> "Shipped"
      [] s = "delivered"    -> "Delivered"
      [] s = "under-review" -> "Under Review"
      [] s = "cancelled"    -> "Cancelled"
      [] s = "refunded"     -> "Refunded"
      [] s = "failed"       -> "Failed"

DataKeys == {"status", "deliverer", "delivery_address"}

\* set(self.data.keys())
Keys(data) == {k \in DataKeys : data[k] # Absent}

\* self.data.get(k): None when the key is missing
Get(data, k) == IF data[k] = Absent THEN None ELSE data[k]

\* OrderUpdater.__init__: intent is popped out of the change-set
NewUpdater(o, user, data, intent) ==
    [order |-> o, user |-> user, data |-> data, role |-> get_role(user),
     intent |-> intent, action_description |-> <<>>,
     exc |-> NoExc, stage |-> "", fields |-> {}, log |-> <<>>, target |-> Absent]

Raise(u, exc, stage) == [u EXCEPT !.exc = exc, !.stage = stage]

\* the allowed fields with the deliverer let through for delivery users
AllowedFields_delivery_assigns(role) ==
    IF role \in {"admin", "manager", "delivery"} THEN {"status", "deliverer"}
    ELSE {"delivery_address", "intent"}

AllowedFields(role) ==
    IF role \in {"admin", "manager"} THEN {"status", "deliverer"}
    ELSE IF role = "delivery" THEN {"status"}
    ELSE {"delivery_address", "intent"}

check_allowed_fields(u) ==
    LET disallowed_fields == Keys(u.data) \ AllowedFields(u.role)
    IN  IF disallowed_fields # {}
        THEN [Raise(u, "ValidationError", "fields") EXCEPT !.fields = disallowed_fields]
        ELSE u

\* the deliverer is assigned and the status left to the change-set
handle_deliverer_no_ship(u) ==
    LET new_deliverer == Get(u.data, "deliverer")
    IN  IF new_deliverer = None THEN u
        ELSE IF new_deliverer # u.order.deliverer
        THEN [u EXCEPT !.order.deliverer = new_deliverer]
        ELSE u

\* the deliverer written into the owner of the order
handle_deliverer_as_owner(u) ==
    LET new_deliverer == Get(u.data, "deliverer")
    IN  IF new_deliverer = None THEN u
        ELSE IF new_deliverer # u.order.deliverer
        THEN IF u.order.status \in {"pending", "under-review"}
             THEN [u EXCEPT !.order.user = new_deliverer,
                            !.data.status = "shipped"]
             ELSE [u EXCEPT !.order.user = new_deliverer]
        ELSE u

\* the assignment that ships the order from every status
handle_deliverer_always_ships(u) ==
    LET new_deliverer == Get(u.data, "deliverer")
    IN  IF new_deliverer = None THEN u
        ELSE IF new_deliverer # u.order.deliverer
        THEN [u EXCEPT !.order.deliverer = new_deliverer,
                       !.data.status = "shipped"]
        ELSE u

handle_deliverer(u) ==
    LET new_deliverer == Get(u.data, "deliverer")
    IN  IF new_deliverer = None THEN u
        ELSE IF new_deliverer # u.order.deliverer
        THEN IF u.order.status \in {"pending", "under-review"}
             THEN [u EXCEPT !.order.deliverer = new_deliverer,
                            !.data.status = "shipped"]
             ELSE [u EXCEPT !.order.deliverer = new_deliverer]
        ELSE u

\* the address handler without the check of the current status
handle_delivery_address_any_status(u) ==
    LET new_address == Get(u.data, "delivery_address")
        current_status == u.order.status
    IN  IF new_address = None \/ new_address = u.order.delivery_address THEN u
        ELSE IF current_status = "failed"
        THEN [u EXCEPT !.order.delivery_address = new_address,
                       !.data.status = "under-review"]
        ELSE [u EXCEPT !.order.delivery_address = new_address]

\* the address handler that leaves a failed order failed
handle_delivery_address_no_review(u) ==
    LET new_address == Get(u.data, "delivery_address")
        current_status == u.order.status
    IN  IF new_address = None \/ new_address = u.order.delivery_address THEN u
        ELSE IF current_status \notin {"pending", "failed"}
        THEN Raise(u, "ValidationError", "address")
        ELSE [u EXCEPT !.order.delivery_address = new_address]

handle_delivery_address(u) ==
    LET new_address == Get(u.data, "delivery_address")
        current_status == u.order.status
    IN  IF new_address = None \/ new_address = u.order.delivery_address THEN u
        ELSE IF current_status \notin {"pending", "failed"}
        THEN Raise(u, "ValidationError", "address")
        ELSE IF current_status = "failed"
        THEN [u EXCEPT !.order.delivery_address = new_address,
                       !.data.status = "under-review"]
        ELSE [u EXCEPT !.order.delivery_address = new_address]

\* the intent resolver without the audit note
handle_intent_no_note(u) ==
    IF u.intent = None THEN u
    ELSE IF u.order.status \notin INTENTS_ORIGIN_STATUSES[u.intent]
    THEN Raise(u, "ValidationError", "intent")
    ELSE [u EXCEPT !.data.status = "under-review"]

handle_intent(u) ==
    IF u.intent = None THEN u
    ELSE IF u.order.status \notin INTENTS_ORIGIN_STATUSES[u.intent]
    THEN Raise(u, "ValidationError", "intent")
    ELSE [u EXCEPT !.data.status = "under-review",
                   !.action_description =
                       <<"Customer requested", u.intent,
                         "Status transitioned to Under Review">>]

\* the audit entry signed with the owner of the order
log_history_owner(u, new_status) ==
    LET action == IF u.action_description # <<>>
                  THEN u.action_description
                  ELSE <<"Status transitioned to", Title(new_status)>>
    IN  [u EXCEPT !.log = Append(u.log,
            [order |-> 1, status |-> new_status, performed_by |-> u.order.user,
             action |-> action])]

\* the audit entry left with the default of the status column
log_history_default_status(u, new_status) ==
    LET action == IF u.action_description # <<>>
                  THEN u.action_description
                  ELSE <<"Status transitioned to", Title(new_status)>>
    IN  [u EXCEPT !.log = Append(u.log,
            [order |-> 1, status |-> "pending", performed_by |-> u.user,
             action |-> action])]

log_history(u, new_status) ==
    LET action == IF u.action_description # <<>>
                  THEN u.action_description
                  ELSE <<"Status transitioned to", Title(new_status)>>
    IN  [u EXCEPT !.log = Append(u.log,
            [order |-> 1, status |-> new_status, performed_by |-> u.user,
             action |-> action])]

\* the transition check with the role looked up before the edge
handle_status_transition_role_first(u) ==
    LET new_status == Get(u.data, "status")
        current_status == u.order.status
        allowed_transitions == STATUS_TRANSITIONS[current_status]
        v == [u EXCEPT !.target = new_status]
        roles == IF new_status \in DOMAIN allowed_transitions
                 THEN allowed_transitions[new_status] ELSE {}
    IN  IF new_status = None \/ new_status = u.order.status THEN v
        ELSE IF u.role \notin roles
        THEN Raise(v, "PermissionDenied", "status")
        ELSE log_history([v EXCEPT !.order.status = new_status,
                                   !.order.when_last_update = @ + 1],
                         new_status)

\* the status taken from the change-set as it is, proposed or not
handle_status_transition_unchecked(u) ==
    LET new_status == Get(u.data, "status")
    IN  [u EXCEPT !.target = new_status, !.order.status = new_status]

\* the audit entry written before the role is looked up
handle_status_transition_logs_first(u) ==
    LET new_status == Get(u.data, "status")
        current_status == u.order.status
        allowed_transitions == STATUS_TRANSITIONS[current_status]
        v == [u EXCEPT !.target = new_status]
    IN  IF new_status = None \/ new_status = u.order.status THEN v
        ELSE IF new_status \notin DOMAIN allowed_transitions
        THEN Raise(v, "ValidationError", "status")
        ELSE IF u.role \notin allowed_transitions[new_status]
        THEN Raise(log_history(v, new_status), "PermissionDenied", "status")
        ELSE log_history([v EXCEPT !.order.status = new_status,
                                   !.order.when_last_update = @ + 1],
                         new_status)

handle_status_transition(u) ==
    LET new_status == Get(u.data, "status")
        current_status == u.order.status
        allowed_transitions == STATUS_TRANSITIONS[current_status]
        v == [u EXCEPT !.target = new_status]
    IN  IF new_status = None \/ new_status = u.order.status THEN v
        ELSE IF new_status \notin DOMAIN allowed_transitions
        THEN Raise(v, "ValidationError", "status")
        ELSE IF u.role \notin allowed_transitions[new_status]
        THEN Raise(v, "PermissionDenied", "status")
        ELSE log_history([v EXCEPT !.order.status = new_status,
                                   !.order.when_last_update = @ + 1],
                         new_status)

\* the handlers with the intent resolved before the address is looked at
run_intent_first(u) ==
    LET u1 == check_allowed_fields(u)
        u2 == IF u1.exc # NoExc THEN u1 ELSE handle_deliverer(u1)
        u3 == IF u2.exc # NoExc THEN u2 ELSE handle_intent(u2)
        u4 == IF u3.exc # NoExc THEN u3 ELSE handle_delivery_address(u3)
    IN  IF u4.exc # NoExc THEN u4 ELSE handle_status_transition(u4)

\* OrderUpdater.run up to, not including, self.order.save(); a raised
\* exception ends run(): no later handler is called
run(u) ==
    LET u1 == check_allowed_fields(u)
        u2 == IF u1.exc # NoExc THEN u1 ELSE handle_deliverer(u1)
        u3 == IF u2.exc # NoExc THEN u2 ELSE handle_delivery_address(u2)
        u4 == IF u3.exc # NoExc THEN u3 ELSE handle_intent(u3)
    IN  IF u4.exc # NoExc THEN u4 ELSE handle_status_transition(u4)

----------------------------------------------------------------------------
(* store/models.py *)

\* Order.save(): every field is written, when_last_update is auto_now
save(o, stored) == [o EXCEPT !.when_last_update = stored.when_last_update + 1]

----------------------------------------------------------------------------
(* store/views.py, store/serializers.py *)

\* the queryset with every order handed to delivery users
get_orders_delivery_all(user, o) ==
    LET role == get_role(user)
    IN  IF role \in {"admin", "manager", "delivery"} THEN TRUE
        ELSE o.user = user

\* get_orders(user): is the order in the queryset of the user
get_orders(user, o) ==
    LET role == get_role(user)
    IN  IF role \in {"admin", "manager"} THEN TRUE
        ELSE IF role = "delivery" THEN o.deliverer = user
        ELSE o.user = user

\* OrderSerializer.get_fields: the writable fields the role is given
SerializerFields(user) ==
    IF get_role(user) \in {"admin", "manager", "delivery"}
    THEN {"status", "deliverer", "delivery_address", "intent"}
    ELSE {"delivery_address", "intent"}

\* OrderSerializer.__init__: the addresses the user may name
AddressQueryset(user) ==
    IF get_role(user) \in {"admin", "manager"} THEN Addresses
    ELSE {a \in Addresses : AddressOwner(a) = user}

\* OrderSerializer.validate: a deliverer is a member of the delivery group
Deliverers == {d \in Users : "delivery" \in UserAttr(d).groups}

\* the validated change-sets a PATCH of the user can hand to update()
ValidatedData(user) ==
    {d \in [status : Statuses \cup {Absent},
            deliverer : Deliverers \cup {None, Absent},
            delivery_address : Addresses \cup {Absent},
            intent : Intents \cup {None}] :
        /\ ("status" \notin SerializerFields(user) => d.status = Absent)
        /\ ("deliverer" \notin SerializerFields(user) => d.deliverer = Absent)
        /\ (d.delivery_address # Absent => d.delivery_address \in AddressQueryset(user))
        /\ Cardinality({k \in DataKeys : d[k] # Absent})
             + (IF d.intent # None THEN 1 ELSE 0) <= MaxFields}

\* validated_data after OrderUpdater.__init__ popped the intent
DataOf(d) == [k \in DataKeys |-> d[k]]

----------------------------------------------------------------------------
(* State *)

\* the order as OrderViewSet.create leaves it, with its first history entry
NewOrder ==
    [user |-> "cust1", deliverer |-> None, delivery_address |-> "a1",
     status |-> "pending", total |-> 10, when_placed |-> 0,
     when_last_update |-> 0]

CreatedEntry ==
    [order |-> 1, status |-> "pending", performed_by |-> "cust1",
     action |-> <<"Order created">>]

\* no request is being answered
NoLast ==
    [actor |-> "", role |-> "", data |-> [k \in DataKeys |-> Absent],
     intent |-> None, pre |-> NewOrder, prehist |-> <<>>,
     result |-> "", exc |-> NoExc, stage |-> "", fields |-> {},
     target |-> Absent, mem |-> NewOrder]

Procs == {1, 2}

\* a request worker that holds no request; read: the row as get_object()
\* returned it, u: the updater working on that instance
Idle ==
    [pc |-> "idle", actor |-> "", read |-> NewOrder,
     u |-> NewUpdater(NewOrder, "anon", [k \in DataKeys |-> Absent], None)]

NoCommit == [from |-> "", to |-> "", role |-> ""]

\* a request: who sends it and the validated change-set
Req(actor, status, deliverer, delivery_address, intent) ==
    [actor |-> actor,
     d |-> [status |-> status, deliverer |-> deliverer,
            delivery_address |-> delivery_address, intent |-> intent]]

\* lives of an order: requests sent one after another since its creation
Lives ==
    {<<Req("mgr", Absent, "del1", Absent, None),
       Req("del1", "delivered", Absent, Absent, None),
       Req("cust1", Absent, Absent, Absent, "refund"),
       Req("mgr", "refunded", Absent, Absent, None)>>,
     <<Req("cust1", Absent, Absent, Absent, "cancellation"),
       Req("root", "cancelled", Absent, Absent, None)>>,
     <<Req("mgr", Absent, "del1", Absent, None),
       Req("del1", "under-review", Absent, Absent, None),
       Req("root", "failed", Absent, Absent, None)>>}

\* the stored order and its history after the requests were handled in turn
\* by OrderUpdater.run and save(); ok: none of them was refused
RECURSIVE After(_)
After(reqs) ==
    IF reqs = <<>>
    THEN [order |-> NewOrder, history |-> <<CreatedEntry>>, ok |-> TRUE]
    ELSE LET s == After(SubSeq(reqs, 1, Len(reqs) - 1))
             r == reqs[Len(reqs)]
             u == run(NewUpdater(s.order, r.actor, DataOf(r.d), r.d.intent))
         IN  [order |-> save(u.order, s.order),
              history |-> s.history \o u.log,
              ok |-> /\ s.ok
                     /\ r.d \in ValidatedData(r.actor)
                     /\ get_orders(r.actor, s.order)
                     /\ u.exc = NoExc]

\* the users who fill carts and place orders
ShopUsers == {"cust1", "mgr", "anon"}

\* the books on sale: baseprice in cents and discount in percent
Books == {"b1", "b2"}

Book(b) ==
    IF b = "b1" THEN [baseprice |-> 200, discount |-> 0]
    ELSE [baseprice |-> 250, discount |-> 25]

\* the quantities asked for, and one the serializer refuses
Quantities == {0, 1, 2}

\* no cart row of any user
NoCart == [u \in ShopUsers |-> {}]

\* no placement is being answered
NoCreated ==
    [actor |-> "", delivery_address |-> Absent, result |-> "",
     cart |-> NoCart, placed |-> <<>>]

\* a worker that is placing no order; rows: the cart rows it fetched, id: the
\* order it inserted
NotPlacing ==
    [pc |-> "idle", actor |-> "", delivery_address |-> Absent, rows |-> {},
     id |-> 0, result |-> ""]

\* the order is taken at some point of one of its lives
Init ==
    /\ \E life \in Lives : \E n \in 0..Len(life) :
          LET s == After(SubSeq(life, 1, n))
          IN  s.ok /\ order = s.order /\ history = s.history
    /\ last = NoLast
    /\ procs = [p \in Procs |-> Idle]
    /\ committed = NoCommit
    /\ saves = 0
    /\ cart = NoCart
    /\ placed = <<>>
    /\ created = NoCreated
    /\ placing = [p \in Procs |-> NotPlacing]

----------------------------------------------------------------------------
(* Requests handled one at a time *)

\* what the request was and what became of it
Outcome(actor, d, u, result) ==
    [actor |-> actor, role |-> get_role(actor), data |-> DataOf(d),
     intent |-> d.intent, pre |-> order, prehist |-> history,
     result |-> result, exc |-> u.exc, stage |-> u.stage, fields |-> u.fields,
     target |-> u.target, mem |-> u.order]

\* the request of an actor nobody authenticated let through to get_object()
UpdateUnauthenticated_not_refused(actor, d) ==
    /\ last = NoLast
    /\ ~UserAttr(actor).is_authenticated
    /\ LET u == run(NewUpdater(order, actor, DataOf(d), d.intent))
       IN  IF get_orders(actor, order)
           THEN /\ history' = history \o u.log
                /\ order' = IF u.exc = NoExc THEN save(u.order, order) ELSE order
                /\ last' = Outcome(actor, d, u,
                               IF u.exc = NoExc THEN "Done" ELSE "Rejected")
           ELSE /\ last' = Outcome(actor, d,
                               NewUpdater(order, actor, DataOf(d), d.intent),
                               "NotFound")
                /\ UNCHANGED <<order, history>>
    /\ UNCHANGED <<procs, committed, saves>>
    /\ UNCHANGED shop

\* PATCH /orders/1 by an actor nobody authenticated: IsAuthenticated refuses
UpdateUnauthenticated(actor, d) ==
    /\ last = NoLast
    /\ ~UserAttr(actor).is_authenticated
    /\ last' = Outcome(actor, d, NewUpdater(order, actor, DataOf(d), d.intent),
                       "NotAuthenticated")
    /\ UNCHANGED <<order, history, procs, committed, saves>>
    /\ UNCHANGED shop

\* PATCH /orders/1 on an order outside get_queryset(): 404
UpdateNotFound(actor, d) ==
    /\ last = NoLast
    /\ UserAttr(actor).is_authenticated
    /\ ~get_orders(actor, order)
    /\ last' = Outcome(actor, d, NewUpdater(order, actor, DataOf(d), d.intent),
                       "NotFound")
    /\ UNCHANGED <<order, history, procs, committed, saves>>
    /\ UNCHANGED shop

\* the rejected request with the instance saved all the same
UpdateRejected_saves(actor, d) ==
    /\ last = NoLast
    /\ UserAttr(actor).is_authenticated
    /\ get_orders(actor, order)
    /\ saves < MaxTime
    /\ LET u == run(NewUpdater(order, actor, DataOf(d), d.intent))
       IN  /\ u.exc # NoExc
           /\ history' = history \o u.log
           /\ order' = save(u.order, order)
           /\ last' = Outcome(actor, d, u, "Rejected")
    /\ saves' = saves + 1
    /\ UNCHANGED <<procs, committed>>
    /\ UNCHANGED shop

\* PATCH /orders/1 that OrderUpdater.run rejects: the exception leaves run()
\* before save(), the response is 400 or 403
UpdateRejected(actor, d) ==
    /\ last = NoLast
    /\ UserAttr(actor).is_authenticated
    /\ get_orders(actor, order)
    /\ LET u == run(NewUpdater(order, actor, DataOf(d), d.intent))
       IN  /\ u.exc # NoExc
           /\ history' = history \o u.log
           /\ last' = Outcome(actor, d, u, "Rejected")
    /\ UNCHANGED <<order, procs, committed, saves>>
    /\ UNCHANGED shop

\* PATCH /orders/1 that OrderUpdater.run carries through: history entry,
\* then save()
UpdateDone(actor, d) ==
    /\ last = NoLast
    /\ UserAttr(actor).is_authenticated
    /\ get_orders(actor, order)
    /\ saves < MaxTime
    /\ LET u == run(NewUpdater(order, actor, DataOf(d), d.intent))
       IN  /\ u.exc = NoExc
           /\ history' = history \o u.log
           /\ order' = save(u.order, order)
           /\ last' = Outcome(actor, d, u, "Done")
    /\ saves' = saves + 1
    /\ UNCHANGED <<procs, committed>>
    /\ UNCHANGED shop

\* the response is sent and the request is over
Respond ==
    /\ last # NoLast
    /\ last' = NoLast
    /\ UNCHANGED <<order, history, procs, committed, saves>>
    /\ UNCHANGED shop

Next ==
    \/ \E actor \in Users : \E d \in ValidatedData(actor) :
        \/ UpdateUnauthenticated(actor, d)
        \/ UpdateNotFound(actor, d)
        \/ UpdateRejected(actor, d)
        \/ UpdateDone(actor, d)
    \/ Respond

Spec == Init /\ [][Next]_vars

----------------------------------------------------------------------------
(* Requests of every kind of account, one field each *)

\* the change-sets the accounts send: at most one field
AccountData(actor) ==
    {d \in ValidatedData(actor) :
        /\ Cardinality({k \in DataKeys : d[k] # Absent})
             + (IF d.intent # None THEN 1 ELSE 0) <= 1
        /\ d.deliverer \in {Absent, "del2"}}

NextAccounts ==
    \/ \E actor \in Accounts : \E d \in AccountData(actor) :
        \/ UpdateUnauthenticated(actor, d)
        \/ UpdateNotFound(actor, d)
        \/ UpdateRejected(actor, d)
        \/ UpdateDone(actor, d)
    \/ Respond

SpecAccounts == Init /\ [][NextAccounts]_vars

----------------------------------------------------------------------------
(* Staff requests: every combination of status, deliverer and intent *)

StaffUsers == {"root", "mgr"}

\* the change-sets of an admin or manager over the fields the serializer
\* gives them, with or without an intent; no address, staff own none
StaffData(actor) ==
    {d \in [status : Statuses \cup {Absent},
            deliverer : Deliverers \cup {None, Absent},
            delivery_address : {Absent},
            intent : Intents \cup {None}] :
        /\ ("status" \notin SerializerFields(actor) => d.status = Absent)
        /\ ("deliverer" \notin SerializerFields(actor) => d.deliverer = Absent)}

\* staff see every order: their requests reach the updater
NextStaff ==
    \/ \E actor \in StaffUsers : \E d \in StaffData(actor) :
        \/ UpdateRejected(actor, d)
        \/ UpdateDone(actor, d)
    \/ Respond

SpecStaff == Init /\ [][NextStaff]_vars

----------------------------------------------------------------------------
(* Carts and the placement of orders: POST /cart/items, POST /orders *)

\* round(x, 2) of a Decimal given in hundredths of a cent: half to even
Round2(n) ==
    LET q == n \div 100
        r == n % 100
    IN  IF r > 50 \/ (r = 50 /\ q % 2 = 1) THEN q + 1 ELSE q

\* CartSerializer.create: the row of the book with its unit price and price
CartRow(b, quantity) ==
    LET unit_price == Round2(Book(b).baseprice * (100 - Book(b).discount))
    IN  [book |-> b, quantity |-> quantity, unit_price |-> unit_price,
         price |-> unit_price * quantity]

\* POST /cart/items: a row is added; (user, book) is unique in Cart
CartAdd(actor, b, quantity) ==
    /\ created = NoCreated
    /\ last = NoLast
    /\ UserAttr(actor).is_authenticated
    /\ quantity >= 1
    /\ \A row \in cart[actor] : row.book # b
    /\ cart' = [cart EXCEPT ![actor] = @ \cup {CartRow(b, quantity)}]
    /\ UNCHANGED <<order, history, last, procs, committed, saves, placed, created, placing>>

\* sum(cartobj.price for cartobj in cart_queryset)
RECURSIVE SumPrice(_)
SumPrice(rows) ==
    IF rows = {} THEN 0
    ELSE LET row == CHOOSE row \in rows : TRUE
         IN  row.price + SumPrice(rows \ {row})

\* what the placement was and what became of it
Placement(actor, address, result) ==
    [actor |-> actor, delivery_address |-> address, result |-> result,
     cart |-> cart, placed |-> placed]

\* POST /orders by an actor nobody authenticated: IsAuthenticated refuses
CreateUnauthenticated(actor, address) ==
    /\ created = NoCreated
    /\ last = NoLast
    /\ ~UserAttr(actor).is_authenticated
    /\ created' = Placement(actor, address, "NotAuthenticated")
    /\ UNCHANGED <<order, history, last, procs, committed, saves, cart, placed, placing>>

\* POST /orders that is_valid() refuses: delivery_address is required and is
\* looked up in the queryset of the user
CreateInvalid(actor, address) ==
    /\ created = NoCreated
    /\ last = NoLast
    /\ UserAttr(actor).is_authenticated
    /\ address \notin AddressQueryset(actor)
    /\ created' = Placement(actor, address, "Invalid")
    /\ UNCHANGED <<order, history, last, procs, committed, saves, cart, placed, placing>>

\* POST /orders with no row in the cart of the user: 400
CreateEmptyCart(actor, address) ==
    /\ created = NoCreated
    /\ last = NoLast
    /\ UserAttr(actor).is_authenticated
    /\ address \in AddressQueryset(actor)
    /\ cart[actor] = {}
    /\ created' = Placement(actor, address, "EmptyCart")
    /\ UNCHANGED <<order, history, last, procs, committed, saves, cart, placed, placing>>

\* the placement that leaves the rows in the cart
CreateOrder_keeps_cart(actor, address) ==
    /\ created = NoCreated
    /\ last = NoLast
    /\ UserAttr(actor).is_authenticated
    /\ address \in AddressQueryset(actor)
    /\ cart[actor] # {}
    /\ Len(placed) < MaxOrders
    /\ LET id == Len(placed) + 1
           new_order ==
               [user |-> actor, deliverer |-> None, delivery_address |-> address,
                status |-> "pending", total |-> SumPrice(cart[actor]),
                when_placed |-> 0, when_last_update |-> 0]
           order_items ==
               {[order |-> id, book |-> item.book, quantity |-> item.quantity,
                 unit_price |-> item.unit_price, price |-> item.price] :
                    item \in cart[actor]}
           entry ==
               [order |-> id, status |-> "pending", performed_by |-> actor,
                action |-> <<"Order created">>]
       IN  placed' = Append(placed,
               [order |-> new_order, items |-> order_items, history |-> <<entry>>])
    /\ created' = Placement(actor, address, "Created")
    /\ UNCHANGED <<order, history, last, procs, committed, saves, cart, placing>>

\* POST /orders with rows in the cart: OrderViewSet.create makes the order
\* (status and timestamps by default), its items, its first history entry,
\* and deletes the rows of the user
CreateOrder(actor, address) ==
    /\ created = NoCreated
    /\ last = NoLast
    /\ UserAttr(actor).is_authenticated
    /\ address \in AddressQueryset(actor)
    /\ cart[actor] # {}
    /\ Len(placed) < MaxOrders
    /\ LET id == Len(placed) + 1
           new_order ==
               [user |-> actor, deliverer |-> None, delivery_address |-> address,
                status |-> "pending", total |-> SumPrice(cart[actor]),
                when_placed |-> 0, when_last_update |-> 0]
           order_items ==
               {[order |-> id, book |-> item.book, quantity |-> item.quantity,
                 unit_price |-> item.unit_price, price |-> item.price] :
                    item \in cart[actor]}
           entry ==
               [order |-> id, status |-> "pending", performed_by |-> actor,
                action |-> <<"Order created">>]
       IN  placed' = Append(placed,
               [order |-> new_order, items |-> order_items, history |-> <<entry>>])
    /\ cart' = [cart EXCEPT ![actor] = {}]
    /\ created' = Placement(actor, address, "Created")
    /\ UNCHANGED <<order, history, last, procs, committed, saves, placing>>

\* the response to the placement is sent
CreateRespond ==
    /\ created # NoCreated
    /\ created' = NoCreated
    /\ UNCHANGED <<order, history, last, procs, committed, saves, cart, placed, placing>>

\* carts are filled and orders placed; the order placed before is there for
\* the PATCH of an actor nobody authenticated
NextShop ==
    \/ \E actor \in ShopUsers :
        \/ \E b \in Books : \E quantity \in Quantities : CartAdd(actor, b, quantity)
        \/ \E address \in Addresses \cup {Absent} :
            \/ CreateUnauthenticated(actor, address)
            \/ CreateInvalid(actor, address)
            \/ CreateEmptyCart(actor, address)
            \/ CreateOrder(actor, address)
        \/ \E d \in AccountData(actor) :
            created = NoCreated /\ UpdateUnauthenticated(actor, d)
    \/ CreateRespond
    \/ Respond

InitShop ==
    /\ order = NewOrder
    /\ history = <<CreatedEntry>>
    /\ last = NoLast
    /\ procs = [p \in Procs |-> Idle]
    /\ committed = NoCommit
    /\ saves = 0
    /\ cart = NoCart
    /\ placed = <<>>
    /\ created = NoCreated
    /\ placing = [p \in Procs |-> NotPlacing]

SpecShop == InitShop /\ [][NextShop]_vars

----------------------------------------------------------------------------
(* Requests handled by two workers at once.  No view, serializer or service *)
(* opens a transaction or locks the row: the database is read in           *)
(* get_object(), written by OrderHistory.objects.create() and written      *)
(* again by order.save(), and another request can run between any two.     *)

\* the users whose requests the two workers take
ConcUsers == {"mgr", "cust1"}

\* the change-sets the two workers take: one field each
ConcData(actor) ==
    {d \in ValidatedData(actor) :
        /\ Cardinality({k \in DataKeys : d[k] # Absent})
             + (IF d.intent # None THEN 1 ELSE 0) = 1
        /\ d.deliverer \in {Absent, "del1"}}

\* UpdateModelMixin.update: get_object() reads the row of the order
GetObject(p, actor, d) ==
    /\ procs[p].pc = "idle"
    /\ UserAttr(actor).is_authenticated
    /\ get_orders(actor, order)
    /\ procs' = [procs EXCEPT ![p] =
            [pc |-> "loaded", actor |-> actor, read |-> order,
             u |-> NewUpdater(order, actor, DataOf(d), d.intent)]]
    /\ UNCHANGED <<order, history, last, committed, saves>>
    /\ UNCHANGED shop

\* OrderUpdater.run up to save(): the handlers work on the instance that was
\* read, _log_history inserts the history row; an exception ends the request
RunUpdater(p) ==
    /\ procs[p].pc = "loaded"
    /\ LET u == run(procs[p].u)
       IN  /\ history' = history \o u.log
           /\ procs' = [procs EXCEPT ![p] =
                  IF u.exc # NoExc THEN Idle
                  ELSE [pc |-> "saving", actor |-> procs[p].actor,
                        read |-> procs[p].read,
                        u |-> [u EXCEPT !.log = <<>>]]]
    /\ UNCHANGED <<order, last, committed, saves>>
    /\ UNCHANGED shop

\* self.order.save(): the row is overwritten with the fields of the instance
SaveOrder(p) ==
    /\ procs[p].pc = "saving"
    /\ saves < MaxConcSaves
    /\ order' = save(procs[p].u.order, order)
    /\ committed' = [from |-> order.status, to |-> procs[p].u.order.status,
                     role |-> procs[p].u.role]
    /\ procs' = [procs EXCEPT ![p] = Idle]
    /\ saves' = saves + 1
    /\ UNCHANGED <<history, last>>
    /\ UNCHANGED shop

NextConc ==
    \E p \in Procs :
        \/ \E actor \in ConcUsers : \E d \in ConcData(actor) : GetObject(p, actor, d)
        \/ RunUpdater(p)
        \/ SaveOrder(p)

\* the two workers start on the order as it was created
InitConc ==
    /\ order = NewOrder
    /\ history = <<CreatedEntry>>
    /\ last = NoLast
    /\ procs = [p \in Procs |-> Idle]
    /\ committed = NoCommit
    /\ saves = 0
    /\ cart = NoCart
    /\ placed = <<>>
    /\ created = NoCreated
    /\ placing = [p \in Procs |-> NotPlacing]

SpecConc == InitConc /\ [][NextConc]_vars

----------------------------------------------------------------------------
(* Two workers place orders at the same time: OrderViewSet.create runs
   outside any transaction, one statement at a time *)

PlaceUsers == {"cust1", "mgr"}

\* the placements that have not inserted their order yet
Pending == {q \in Procs : placing[q].pc \in {"checked", "fetched"}}

\* cart_queryset.exists() finds a row
PlaceExists(p, actor, address) ==
    /\ placing[p].pc = "idle"
    /\ UserAttr(actor).is_authenticated
    /\ address \in AddressQueryset(actor)
    /\ Len(placed) + Cardinality(Pending) < MaxConcOrders
    /\ cart[actor] # {}
    /\ placing' = [placing EXCEPT ![p] =
            [pc |-> "checked", actor |-> actor, delivery_address |-> address,
             rows |-> {}, id |-> 0, result |-> ""]]
    /\ UNCHANGED <<order, history, last, procs, committed, saves, cart, placed,
                   created>>

\* cart_queryset.exists() finds none: 400
PlaceEmptyCart(p, actor, address) ==
    /\ placing[p].pc = "idle"
    /\ UserAttr(actor).is_authenticated
    /\ address \in AddressQueryset(actor)
    /\ Len(placed) + Cardinality(Pending) < MaxConcOrders
    /\ cart[actor] = {}
    /\ placing' = [placing EXCEPT ![p] =
            [pc |-> "answered", actor |-> actor, delivery_address |-> address,
             rows |-> {}, id |-> 0, result |-> "EmptyCart"]]
    /\ UNCHANGED <<order, history, last, procs, committed, saves, cart, placed,
                   created>>

\* sum(... for cartobj in cart_queryset): the rows are fetched and kept
PlaceFetch(p) ==
    /\ placing[p].pc = "checked"
    /\ placing' = [placing EXCEPT ![p].pc = "fetched",
                                  ![p].rows = cart[placing[p].actor]]
    /\ UNCHANGED <<order, history, last, procs, committed, saves, cart, placed,
                   created>>

\* Order.objects.create with the total of the rows fetched
PlaceInsertOrder(p) ==
    /\ placing[p].pc = "fetched"
    /\ LET new_order ==
               [user |-> placing[p].actor, deliverer |-> None,
                delivery_address |-> placing[p].delivery_address,
                status |-> "pending", total |-> SumPrice(placing[p].rows),
                when_placed |-> 0, when_last_update |-> 0]
       IN  placed' = Append(placed,
               [order |-> new_order, items |-> {}, history |-> <<>>])
    /\ placing' = [placing EXCEPT ![p].pc = "ordered",
                                  ![p].id = Len(placed) + 1]
    /\ UNCHANGED <<order, history, last, procs, committed, saves, cart, created>>

\* OrderItem.objects.bulk_create from the rows fetched
PlaceInsertItems(p) ==
    /\ placing[p].pc = "ordered"
    /\ LET id == placing[p].id
           order_items ==
               {[order |-> id, book |-> item.book, quantity |-> item.quantity,
                 unit_price |-> item.unit_price, price |-> item.price] :
                    item \in placing[p].rows}
       IN  placed' = [placed EXCEPT ![id].items = order_items]
    /\ placing' = [placing EXCEPT ![p].pc = "itemized"]
    /\ UNCHANGED <<order, history, last, procs, committed, saves, cart, created>>

\* OrderHistory.objects.create(action='Order created')
PlaceInsertHistory(p) ==
    /\ placing[p].pc = "itemized"
    /\ LET id == placing[p].id
           entry ==
               [order |-> id, status |-> "pending",
                performed_by |-> placing[p].actor,
                action |-> <<"Order created">>]
       IN  placed' = [placed EXCEPT ![id].history = <<entry>>]
    /\ placing' = [placing EXCEPT ![p].pc = "logged"]
    /\ UNCHANGED <<order, history, last, procs, committed, saves, cart, created>>

\* cart_queryset.delete(): the rows the user has now are deleted; 201
PlaceDeleteCart(p) ==
    /\ placing[p].pc = "logged"
    /\ cart' = [cart EXCEPT ![placing[p].actor] = {}]
    /\ placing' = [placing EXCEPT ![p].pc = "answered",
                                  ![p].result = "Created"]
    /\ UNCHANGED <<order, history, last, procs, committed, saves, placed,
                   created>>

\* the response is sent and the worker is free
PlaceRespond(p) ==
    /\ placing[p].pc = "answered"
    /\ placing' = [placing EXCEPT ![p] = NotPlacing]
    /\ UNCHANGED <<order, history, last, procs, committed, saves, cart, placed,
                   created>>

NextShopConc ==
    \E p \in Procs :
        \/ \E actor \in PlaceUsers : \E address \in Addresses :
            \/ PlaceExists(p, actor, address)
            \/ PlaceEmptyCart(p, actor, address)
        \/ PlaceFetch(p)
        \/ PlaceInsertOrder(p)
        \/ PlaceInsertItems(p)
        \/ PlaceInsertHistory(p)
        \/ PlaceDeleteCart(p)
        \/ PlaceRespond(p)

\* the carts are filled before the workers start: one or two rows for the
\* customer, none or one for the manager
InitShopConc ==
    /\ order = NewOrder
    /\ history = <<CreatedEntry>>
    /\ last = NoLast
    /\ procs = [p \in Procs |-> Idle]
    /\ committed = NoCommit
    /\ saves = 0
    /\ \E quantity \in {1, 2} : \E more \in SUBSET {CartRow("b2", 1)} :
       \E other \in SUBSET {CartRow("b2", 2)} :
          cart = [u \in ShopUsers |->
                    IF u = "cust1" THEN {CartRow("b1", quantity)} \cup more
                    ELSE IF u = "mgr" THEN other
                    ELSE {}]
    /\ placed = <<>>
    /\ created = NoCreated
    /\ placing = [p \in Procs |-> NotPlacing]

SpecShopConc == InitShopConc /\ [][NextShopConc]_vars

----------------------------------------------------------------------------
(* The documented policy the behaviour is compared with *)

\* the transition table as the design states it: current, target, roles
TableEdges ==
    {<<"pending", "shipped", {"admin", "manager"}>>,
     <<"pending", "under-review", {"admin", "manager", "customer"}>>,
     <<"pending", "failed", {"admin", "manager"}>>,
     <<"shipped", "delivered", {"admin", "delivery"}>>,
     <<"shipped", "under-review", {"admin", "manager", "delivery"}>>,
     <<"delivered", "under-review", {"admin", "manager", "customer"}>>,
     <<"under-review", "shipped", {"admin", "manager"}>>,
     <<"under-review", "cancelled", {"admin", "manager"}>>,
     <<"under-review", "refunded", {"admin", "manager"}>>,
     <<"under-review", "failed", {"admin", "manager"}>>,
     <<"failed", "under-review", {"admin", "manager", "customer"}>>}

IsEdge(c, t) == \E e \in TableEdges : e[1] = c /\ e[2] = t

EdgeRoles(c, t) == (CHOOSE e \in TableEdges : e[1] = c /\ e[2] = t)[3]

\* the documented allowed fields of each role
GuardFields(role) ==
    CASE role \in {"admin", "manager"} -> {"status", "deliverer"}
      [] role = "delivery"             -> {"status"}
      [] role = "customer"             -> {"delivery_address", "intent"}
      [] OTHER                         -> {}

\* OrderUpdater.run was entered for the request being answered
Ran == last.result \in {"Rejected", "Done"}

\* the request being answered came through the field-authorization guard
PassedGuard == Ran /\ Keys(last.data) \subseteq GuardFields(last.role)

\* the request being answered names an address other than the stored one
ChangesAddress ==
    /\ last.data.delivery_address # Absent
    /\ last.data.delivery_address # last.pre.delivery_address

\* the request being answered came through the guard and the address handler
PassedAddress ==
    PassedGuard /\ (ChangesAddress => last.pre.status \in {"pending", "failed"})

\* the request being answered reached the transition check with a target
\* other than the current status
Proposes(c, t) ==
    Ran /\ last.pre.status = c /\ last.target = t /\ t \in Statuses /\ t # c

\* exactly one entry was appended to the history by the request
OneEntryAppended ==
    /\ Len(history) = Len(last.prehist) + 1
    /\ SubSeq(history, 1, Len(last.prehist)) = last.prehist

----------------------------------------------------------------------------
(* Claims *)

\* C1: an update whose final proposed target t differs from the current
\* status c, with (c, t) an edge of the transition table, commits (status
\* becomes t) exactly when the role is in the edge's role set; otherwise it is
\* rejected as a permission failure and the status stays c.
C1_EdgeCommitsIffRoleAuthorized ==
    LET c == last.pre.status
        t == last.target
    IN  (Proposes(c, t) /\ IsEdge(c, t)) =>
            IF last.role \in EdgeRoles(c, t)
            THEN last.result = "Done" /\ order.status = t
            ELSE /\ last.result = "Rejected"
                 /\ last.exc = "PermissionDenied"
                 /\ last.stage = "status"
                 /\ order.status = c

C1_Witness ==
    /\ Proposes("shipped", "delivered")
    /\ last.role = "delivery"
    /\ last.result = "Done"
    /\ order.status = "delivered"

C1_WitnessForbidden ==
    /\ Proposes("shipped", "delivered")
    /\ last.role = "manager"
    /\ last.exc = "PermissionDenied"

\* C2: for every role, a proposed target t different from the current status
\* c with (c, t) not an edge of the table is rejected as an invalid
\* transition, an error kind other than the permission failure, and the
\* status stays c.
C2_NonEdgeIsInvalidTransition ==
    LET c == last.pre.status
        t == last.target
    IN  (Proposes(c, t) /\ ~IsEdge(c, t)) =>
            /\ last.result = "Rejected"
            /\ last.exc = "ValidationError"
            /\ last.exc # "PermissionDenied"
            /\ last.stage = "status"
            /\ order.status = c

C2_Witness ==
    /\ last.role = "admin"
    /\ Proposes("cancelled", "pending")
    /\ last.exc = "ValidationError"
    /\ last.stage = "status"

\* C3: once the status of the order is cancelled or refunded, no request of
\* any role changes it again.
C3_TerminalStatusesStay ==
    [][order.status \in {"cancelled", "refunded"} => order'.status = order.status]_vars

C3_Witness ==
    /\ last.pre.status \in {"cancelled", "refunded"}
    /\ last.result = "Done"
    /\ last.data.deliverer \in Deliverers
    /\ order.deliverer # last.pre.deliverer
    /\ order.status = last.pre.status

\* C4: a request rejected at any stage persists nothing: the stored order
\* (status, deliverer, address, last-update timestamp) and the history are
\* what they were before the request, also when an earlier handler had
\* already applied a permitted field in memory.
C4_RejectionPersistsNothing ==
    last.result = "Rejected" => (order = last.pre /\ history = last.prehist)

C4_Witness ==
    /\ last.result = "Rejected"
    /\ last.stage = "status"
    /\ last.mem.deliverer # last.pre.deliverer
    /\ order = last.pre

\* C6: an update whose final proposed target equals the current status
\* creates no audit entry and leaves the last-update timestamp as it was.
C6_SameStatusIsNoOp ==
    (Ran /\ last.target = last.pre.status) =>
        /\ history = last.prehist
        /\ order.when_last_update = last.pre.when_last_update

\* C7: an intent on an order outside the intent's eligible origin statuses
\* (cancellation outside pending and failed, refund outside delivered) is
\* rejected, as an ineligible intent when the guard and the address handler
\* let the request through, and status and history are unchanged.
C7_IneligibleIntentRejected ==
    \A i \in Intents :
        (Ran /\ last.intent = i
             /\ last.pre.status \notin
                  (IF i = "cancellation" THEN {"pending", "failed"} ELSE {"delivered"})) =>
            /\ last.result = "Rejected"
            /\ order.status = last.pre.status
            /\ history = last.prehist
            /\ (PassedAddress =>
                    last.stage = "intent" /\ last.exc = "ValidationError")

C7_Witness ==
    /\ last.role = "customer"
    /\ last.intent = "cancellation"
    /\ last.pre.status = "delivered"
    /\ last.result = "Rejected"
    /\ last.stage = "intent"

C9_DelivererAssignmentShips ==
    (PassedGuard /\ last.role \in {"admin", "manager"}
         /\ last.pre.status \in {"pending", "under-review"}
         /\ last.data.deliverer \in Deliverers
         /\ last.data.deliverer # last.pre.deliverer) =>
        /\ last.result = "Done"
        /\ order.deliverer = last.data.deliverer
        /\ order.status = "shipped"
        /\ OneEntryAppended
        /\ history[Len(history)].status = "shipped"

\* C9, for the change-sets that carry no intent: the assignment ships the
\* order, whatever status the change-set names.
C9_ShipsWithoutIntent ==
    (PassedGuard /\ last.role \in {"admin", "manager"}
         /\ last.pre.status \in {"pending", "under-review"}
         /\ last.data.deliverer \in Deliverers
         /\ last.data.deliverer # last.pre.deliverer
         /\ last.intent = None) =>
        /\ last.result = "Done"
        /\ order.deliverer = last.data.deliverer
        /\ order.status = "shipped"
        /\ OneEntryAppended
        /\ history[Len(history)].status = "shipped"

C9_Witness ==
    /\ last.role = "manager"
    /\ last.pre.status = "pending"
    /\ last.data.deliverer = "del1"
    /\ last.data.status = Absent
    /\ last.intent = None
    /\ last.result = "Done"
    /\ order.status = "shipped"
    /\ order.deliverer = "del1"

\* C10: the delivery address changes only while the status is pending or
\* failed; in every other status a change to a different address that the
\* guard let through is rejected for the state of the order and the address
\* stays.
C10_AddressChangeOnlyPendingOrFailed ==
    /\ (Ran /\ order.delivery_address # last.pre.delivery_address) =>
            last.pre.status \in {"pending", "failed"}
    /\ (PassedGuard /\ ChangesAddress
            /\ last.pre.status \notin {"pending", "failed"}) =>
            /\ last.result = "Rejected"
            /\ last.exc = "ValidationError"
            /\ last.stage = "address"
            /\ order.delivery_address = last.pre.delivery_address

C10_Witness ==
    /\ last.role = "customer"
    /\ ChangesAddress
    /\ last.pre.status = "shipped"
    /\ last.result = "Rejected"
    /\ last.stage = "address"

C10_WitnessChanged ==
    /\ last.result = "Done"
    /\ last.pre.status = "failed"
    /\ order.delivery_address # last.pre.delivery_address

C11_WitnessPending ==
    /\ last.role = "customer"
    /\ last.intent = None
    /\ ChangesAddress
    /\ last.pre.status = "pending"
    /\ order.delivery_address = "a2"
    /\ order.status = "pending"

C11_WitnessSame ==
    /\ last.role = "customer"
    /\ last.intent = None
    /\ last.data.delivery_address = last.pre.delivery_address
    /\ last.pre.status = "failed"
    /\ last.result = "Done"

\* C12: the field guard lets a change-set through exactly when every field
\* name it receives is in the allowed set of the acting role (admin and
\* manager: status, deliverer; delivery: status; customer: delivery_address,
\* intent), in every status of the order; otherwise the request is rejected
\* at the guard and the error names exactly the fields outside the set.
C12_GuardAcceptsIffFieldsAllowed ==
    Ran =>
        LET offending == Keys(last.data) \ GuardFields(last.role)
        IN  IF offending = {}
            THEN last.stage # "fields"
            ELSE /\ last.result = "Rejected"
                 /\ last.exc = "ValidationError"
                 /\ last.stage = "fields"
                 /\ last.fields = offending
                 /\ order = last.pre

C12_Witness ==
    /\ last.role = "delivery"
    /\ Keys(last.data) = {"deliverer", "status"}
    /\ last.result = "Rejected"
    /\ last.stage = "fields"
    /\ last.fields = {"deliverer"}

C12_WitnessAccepted ==
    /\ last.role = "manager"
    /\ Keys(last.data) = {"deliverer", "status"}
    /\ last.stage # "fields"
    /\ last.pre.status = "delivered"

\* C13: the role of an actor is decided by the superuser flag, the groups
\* and the authentication state, admin before manager before delivery: a
\* superuser is admin whatever the groups, a non-superuser in the manager
\* group is manager also when in the delivery group, a non-superuser in the
\* delivery group and not in the manager group is delivery, an authenticated
\* actor in none of them is customer, an unauthenticated actor is anonymous;
\* the five cases exclude one another, so no actor has two roles.
C13_RoleResolution ==
    last # NoLast =>
        LET a == UserAttr(last.actor)
        IN  /\ a.is_superuser => last.role = "admin"
            /\ (~a.is_superuser /\ "manager" \in a.groups) => last.role = "manager"
            /\ (~a.is_superuser /\ "manager" \notin a.groups
                    /\ "delivery" \in a.groups) => last.role = "delivery"
            /\ (~a.is_superuser /\ a.groups \cap {"manager", "delivery"} = {}
                    /\ a.is_authenticated) => last.role = "customer"
            /\ ~a.is_authenticated => last.role = "anonymous"
            /\ last.role \in {"admin", "manager", "delivery", "customer", "anonymous"}

C13_Witness ==
    /\ last.actor = "mgrdel"
    /\ last.role = "manager"
    /\ last.result = "Done"

C13_WitnessSuperuser ==
    /\ last.actor = "rootmgr"
    /\ last.role = "admin"
    /\ last.result = "Done"

C13_WitnessOtherGroup ==
    /\ last.actor = "cust2"
    /\ last.role = "customer"
    /\ last.result = "NotFound"

\* C14: when a request is about to save an order whose status another request
\* changed since this one read it, the request ends with a conflict error and
\* writes nothing: the stored order stays as the other request committed it.
C14_LoserSurfacesConflict ==
    [][\A p \in Procs :
          (procs[p].pc = "saving" /\ procs[p].read.status # order.status
               /\ procs'[p].pc = "idle") => order' = order]_vars

\* C15: the status of the order is always one of the seven known statuses.
C15_StatusIsKnown ==
    order.status \in
        {"pending", "shipped", "delivered", "under-review",
         "cancelled", "refunded", "failed"}

C15_Witness ==
    /\ last.result = "Done"
    /\ last.pre.status = "under-review"
    /\ order.status = "refunded"

\* C16: no update request, carried through or rejected, of any role changes
\* the total, the owning customer or the placement timestamp of the order.
C16_UpdateKeepsTotalOwnerPlacement ==
    last # NoLast =>
        /\ order.total = last.pre.total
        /\ order.user = last.pre.user
        /\ order.when_placed = last.pre.when_placed

C16_Witness ==
    /\ last.result = "Done"
    /\ order.status # last.pre.status
    /\ order.deliverer # last.pre.deliverer
    /\ order.when_last_update # last.pre.when_last_update
    /\ order.total = last.pre.total
    /\ order.user = last.pre.user

\* C17: the history only grows: a request leaves the entries that were there
\* as they were, appends at most one, and appends one only when it is carried
\* through and changes the status; a rejected request and a request that
\* changes no status append none.  The first entry is the one of the creation.
C17_HistoryAppendOnly ==
    /\ history[1].action = <<"Order created">>
    /\ last # NoLast =>
          \/ history = last.prehist
          \/ /\ OneEntryAppended
             /\ last.result = "Done"
             /\ order.status # last.pre.status

C17_Witness ==
    /\ last.result = "Done"
    /\ OneEntryAppended
    /\ Len(last.prehist) >= 2
    /\ order.status # last.pre.status

C17_WitnessNoChange ==
    /\ last.result = "Done"
    /\ order.deliverer # last.pre.deliverer
    /\ order.status = last.pre.status
    /\ history = last.prehist
    /\ Len(history) >= 2

\* C19: an authenticated actor's update enters the update engine exactly when
\* the order is in the actor's scope: any order for admin and manager, the
\* orders delivered by the actor for delivery, the orders owned by the actor
\* for a customer; outside the scope the request finds no order and changes
\* nothing, so a customer never changes another customer's order and a
\* deliverer is out once another deliverer is assigned.
C19_UpdatesScopedByRole ==
    (last # NoLast /\ last.role # "anonymous") =>
        LET inScope ==
                \/ last.role \in {"admin", "manager"}
                \/ last.role = "delivery" /\ last.pre.deliverer = last.actor
                \/ last.role = "customer" /\ last.pre.user = last.actor
        IN  IF inScope
            THEN last.result \in {"Done", "Rejected"}
            ELSE /\ last.result = "NotFound"
                 /\ order = last.pre
                 /\ history = last.prehist

C19_Witness ==
    /\ last.actor = "del1"
    /\ last.result = "NotFound"
    /\ order.deliverer = "del2"
    /\ \E k \in DOMAIN history : history[k].performed_by = "del1"

C19_WitnessCustomer ==
    /\ last.actor = "cust2"
    /\ last.intent = "cancellation"
    /\ last.pre.status = "pending"
    /\ last.result = "NotFound"
    /\ order.status = "pending"

C19_WitnessAnyOrder ==
    /\ last.actor = "mgrdel"
    /\ last.pre.deliverer = "del1"
    /\ last.result = "Done"
    /\ order.deliverer = "del2"

\* C18: an actor nobody authenticated never mutates an order: the update and
\* the placement it sends are refused by authentication, the update engine
\* is not entered (no stage of it decides anything), and the order, its
\* history, the orders placed and the carts stay as they were.
C18_AnonymousNeverMutates ==
    /\ (last # NoLast /\ ~UserAttr(last.actor).is_authenticated) =>
          /\ last.role = "anonymous"
          /\ last.result = "NotAuthenticated"
          /\ last.stage = ""
          /\ last.exc = NoExc
          /\ order = last.pre
          /\ history = last.prehist
    /\ (created # NoCreated /\ ~UserAttr(created.actor).is_authenticated) =>
          /\ created.result = "NotAuthenticated"
          /\ placed = created.placed
          /\ cart = created.cart

C18_Witness ==
    /\ last.actor = "anon"
    /\ last.intent = "cancellation"
    /\ last.result = "NotAuthenticated"
    /\ order = NewOrder

C18_WitnessCreate ==
    /\ created.actor = "anon"
    /\ created.delivery_address = "a1"
    /\ created.result = "NotAuthenticated"
    /\ cart["cust1"] # {}
    /\ placed = <<>>

\* C20: a placement by an authenticated user with a valid address and no row
\* in the cart is refused and creates nothing; with rows in the cart it
\* creates exactly one order, pending, owned by the user, whose total is the
\* sum of the prices of the user's rows, one item per row with the row's
\* book, quantity, unit price and price, and one history entry 'Order
\* created' performed by the user, and it empties the cart of that user only.
C20_PlacementFromCart ==
    (created # NoCreated /\ UserAttr(created.actor).is_authenticated
         /\ created.delivery_address \in AddressQueryset(created.actor)) =>
        LET rows == created.cart[created.actor]
            PriceOf(b) ==
                IF \E row \in rows : row.book = b
                THEN (CHOOSE row \in rows : row.book = b).price
                ELSE 0
            new == placed[Len(placed)]
        IN  IF rows = {}
            THEN /\ created.result = "EmptyCart"
                 /\ placed = created.placed
                 /\ cart = created.cart
            ELSE /\ created.result = "Created"
                 /\ Len(placed) = Len(created.placed) + 1
                 /\ SubSeq(placed, 1, Len(created.placed)) = created.placed
                 /\ new.order.status = "pending"
                 /\ new.order.user = created.actor
                 /\ new.order.delivery_address = created.delivery_address
                 /\ new.order.total = PriceOf("b1") + PriceOf("b2")
                 /\ Cardinality(new.items) = Cardinality(rows)
                 /\ \A row \in rows : \E item \in new.items :
                        /\ item.order = Len(placed)
                        /\ item.book = row.book
                        /\ item.quantity = row.quantity
                        /\ item.unit_price = row.unit_price
                        /\ item.price = row.price
                 /\ Len(new.history) = 1
                 /\ new.history[1].order = Len(placed)
                 /\ new.history[1].action = <<"Order created">>
                 /\ new.history[1].performed_by = created.actor
                 /\ cart[created.actor] = {}
                 /\ \A u \in ShopUsers \ {created.actor} : cart[u] = created.cart[u]

C20_Witness ==
    /\ created.actor = "cust1"
    /\ created.result = "Created"
    /\ Cardinality(created.cart["cust1"]) = 2
    /\ \E row \in created.cart["cust1"] : row.quantity = 2 /\ row.price = 376
    /\ placed[Len(placed)].order.total = 576
    /\ cart["cust1"] = {}
    /\ cart["mgr"] # {}

C20_WitnessEmpty ==
    /\ created.actor = "cust1"
    /\ created.result = "EmptyCart"
    /\ cart["mgr"] # {}
    /\ placed = <<>>

\* C21: the stages run in the order guard, deliverer, address, intent,
\* transition, persist, and the first stage that fails decides the error: a
\* field outside the role's set is rejected at the guard in every status and
\* whatever a later stage would say; a customer's address change in a status
\* that forbids it, sent with an ineligible intent, is rejected for the
\* address, not for the intent; after a rejection no later stage has run
\* (nothing in memory was touched by a later handler, no target was looked
\* up, nothing was persisted).
C21_FirstFailingStageDecides ==
    Ran =>
        /\ ~(Keys(last.data) \subseteq GuardFields(last.role)) =>
              /\ last.result = "Rejected"
              /\ last.stage = "fields"
        /\ (last.role = "customer" /\ ChangesAddress
                /\ last.pre.status \notin {"pending", "failed"}
                /\ last.intent # None
                /\ last.pre.status \notin
                     (IF last.intent = "cancellation"
                      THEN {"pending", "failed"} ELSE {"delivered"})) =>
              /\ last.result = "Rejected"
              /\ last.stage = "address"
              /\ last.exc = "ValidationError"
        /\ last.result = "Rejected" =>
              /\ order = last.pre
              /\ history = last.prehist
              /\ last.stage = "fields" => last.mem = last.pre
              /\ last.stage = "address" => last.mem.delivery_address = last.pre.delivery_address
              /\ last.stage \in {"fields", "address", "intent"} =>
                    /\ last.target = Absent
                    /\ last.mem.status = last.pre.status
              /\ last.stage = "status" => last.mem.status = last.pre.status

C21_Witness ==
    /\ last.role = "customer"
    /\ ChangesAddress
    /\ last.pre.status = "shipped"
    /\ last.intent = "refund"
    /\ last.result = "Rejected"
    /\ last.stage = "address"

C21_WitnessGuardFirst ==
    /\ last.role = "delivery"
    /\ last.data.deliverer = "del2"
    /\ last.intent = "cancellation"
    /\ last.pre.status = "shipped"
    /\ last.result = "Rejected"
    /\ last.stage = "fields"
    /\ last.mem = last.pre

C21_WitnessIntentAfterDeliverer ==
    /\ last.role = "manager"
    /\ last.result = "Rejected"
    /\ last.stage = "intent"
    /\ last.mem.deliverer # last.pre.deliverer
    /\ last.target = Absent

\* C22: the save of the order is the one commit point of an update: whoever
\* reads the database never finds a history entry of a status change whose
\* status the stored order does not have yet; the newest entry always
\* carries the stored status.
C22_HistoryNeverAheadOfOrder ==
    history[Len(history)].status = order.status

\* C23: an update that commits a status change leaves the order in the
\* target, with a later last-update timestamp, and appends exactly one audit
\* entry, which references the order, carries the new status and names the
\* acting user; no update appends more than one entry, also when several
\* handlers proposed a status in the same request.
C23_CommitWritesOneEntry ==
    last # NoLast =>
        /\ Len(history) <= Len(last.prehist) + 1
        /\ (last.result = "Done" /\ order.status # last.pre.status) =>
              /\ order.status = last.target
              /\ order.when_last_update > last.pre.when_last_update
              /\ OneEntryAppended
              /\ history[Len(history)].order = 1
              /\ history[Len(history)].status = order.status
              /\ history[Len(history)].performed_by = last.actor

C23_Witness ==
    /\ last.role = "customer"
    /\ last.pre.status = "failed"
    /\ ChangesAddress
    /\ last.intent = "cancellation"
    /\ last.result = "Done"
    /\ order.status = "under-review"
    /\ OneEntryAppended

C23_WitnessStaff ==
    /\ last.actor = "mgr"
    /\ last.pre.status = "pending"
    /\ last.data.deliverer = "del1"
    /\ last.data.status = "failed"
    /\ last.result = "Done"
    /\ OneEntryAppended
    /\ history[Len(history)].performed_by = "mgr"

\* C24: each of the seven statuses is the status of the order after some
\* sequence of updates, starting from the order as it was created (pending),
\* in which every request is valid for its sender, finds the order and is
\* carried through by the guards and the transition table.
C24_EveryStatusReachable ==
    /\ history[1].status = "pending"
    /\ LET ends == UNION {{After(SubSeq(life, 1, n)) : n \in 0..Len(life)} :
                              life \in Lives}
       IN  \A s \in {"pending", "shipped", "delivered", "under-review",
                     "cancelled", "refunded", "failed"} :
               \E a \in ends : a.ok /\ a.order.status = s

C24_Witness ==
    /\ order.status = "refunded"
    /\ Len(history) = 5
    /\ history[1].status = "pending"
    /\ history[2].status = "shipped"
    /\ history[3].status = "delivered"
    /\ history[4].status = "under-review"
    /\ history[5].status = "refunded"

C24_WitnessCancelled ==
    /\ order.status = "cancelled"
    /\ Len(history) = 3
    /\ history[2].status = "under-review"

C24_WitnessFailed ==
    /\ order.status = "failed"
    /\ Len(history) = 4
    /\ history[2].status = "shipped"
    /\ history[3].status = "under-review"

\* C25: an update that reaches the transition check with no target is
\* carried through for its other fields and appends no audit entry; an admin
\* or manager who assigns a different deliverer, with no status field (and no
\* intent, which would propose a target), to an order that is shipped,
\* delivered, failed, cancelled or refunded changes the deliverer only; and a
\* request whose deliverer is missing, null or the current one is never
\* moved to shipped by the deliverer handler.
C25_NoTargetKeepsStatus ==
    Ran =>
        /\ last.target = None =>
              /\ last.result = "Done"
              /\ order.status = last.pre.status
              /\ history = last.prehist
        /\ (last.role \in {"admin", "manager"}
                /\ last.data.deliverer \in Deliverers
                /\ last.data.deliverer # last.pre.deliverer
                /\ Keys(last.data) = {"deliverer"}
                /\ last.intent = None
                /\ last.pre.status \in
                     {"shipped", "delivered", "failed", "cancelled", "refunded"}) =>
              /\ last.result = "Done"
              /\ order.deliverer = last.data.deliverer
              /\ order.status = last.pre.status
              /\ order.delivery_address = last.pre.delivery_address
              /\ history = last.prehist
        /\ (last.data.deliverer \in {Absent, None, last.pre.deliverer}
                /\ last.data.status # "shipped"
                /\ order.status = "shipped") =>
              last.pre.status = "shipped"

C25_Witness ==
    /\ last.role = "manager"
    /\ last.pre.status = "refunded"
    /\ Keys(last.data) = {"deliverer"}
    /\ last.intent = None
    /\ last.result = "Done"
    /\ order.deliverer = "del2"
    /\ last.pre.deliverer = "del1"
    /\ order.status = "refunded"

C25_WitnessSameDeliverer ==
    /\ last.role = "admin"
    /\ last.pre.status = "under-review"
    /\ last.data.deliverer = last.pre.deliverer
    /\ last.data.deliverer = "del1"
    /\ last.data.status = Absent
    /\ last.result = "Done"
    /\ order.status = "under-review"

C25_WitnessNullDeliverer ==
    /\ last.role = "manager"
    /\ last.pre.status = "pending"
    /\ last.data.deliverer = None
    /\ last.data.status = Absent
    /\ last.result = "Done"
    /\ order.status = "pending"

\* C27: a change-set that carries an intent and is sent by an admin, a
\* manager or a delivery actor is rejected by the field guard; the order
\* keeps its status and no audit entry is written.
C27_IntentIsCustomerOnly ==
    (Ran /\ last.role \in {"admin", "manager", "delivery"} /\ last.intent # None) =>
        /\ last.result = "Rejected"
        /\ last.stage = "fields"
        /\ order.status = last.pre.status
        /\ history = last.prehist

\* C26: when an admin or manager sends a change-set with an explicit status
\* S and a deliverer other than the current one for an order in status
\* pending or under-review, the request is carried through, the order ends
\* in status shipped whatever S is, and the audit entry records shipped.
C26_DelivererOverrideWins ==
    (PassedGuard /\ last.role \in {"admin", "manager"}
         /\ last.pre.status \in {"pending", "under-review"}
         /\ last.data.status \in Statuses
         /\ last.data.deliverer \in Deliverers
         /\ last.data.deliverer # last.pre.deliverer) =>
        /\ last.result = "Done"
        /\ order.status = "shipped"
        /\ order.deliverer = last.data.deliverer
        /\ OneEntryAppended
        /\ history[Len(history)].status = "shipped"

\* C26, for the change-sets that carry no intent: the override wins for
\* every S.
C26_OverrideWinsWithoutIntent ==
    (PassedGuard /\ last.role \in {"admin", "manager"}
         /\ last.pre.status \in {"pending", "under-review"}
         /\ last.data.status \in Statuses
         /\ last.data.deliverer \in Deliverers
         /\ last.data.deliverer # last.pre.deliverer
         /\ last.intent = None) =>
        /\ last.result = "Done"
        /\ order.status = "shipped"
        /\ order.deliverer = last.data.deliverer
        /\ OneEntryAppended
        /\ history[Len(history)].status = "shipped"

\* C28: with requests served one at a time, after creation and after every
\* update, carried through or rejected, the last history entry of an order
\* carries the order's status, every entry after the first records a status
\* other than the one before it, and the update being answered added one
\* entry if it changed the status and none if it did not: the entries number
\* one plus the status changes.
C28_HistoryTracksStatus ==
    /\ history[Len(history)].status = order.status
    /\ history[1].status = "pending"
    /\ \A k \in 2..Len(history) : history[k].status # history[k - 1].status
    /\ last # NoLast =>
          /\ SubSeq(history, 1, Len(last.prehist)) = last.prehist
          /\ Len(history) = Len(last.prehist)
                              + (IF order.status # last.pre.status THEN 1 ELSE 0)
    /\ \A i \in 1..Len(placed) :
          /\ Len(placed[i].history) = 1
          /\ placed[i].history[1].status = placed[i].order.status

C28_Witness ==
    /\ last.result = "Done"
    /\ Len(last.prehist) = 2
    /\ Len(history) = 3
    /\ order.status # last.pre.status
    /\ history[3].status = order.status

C28_WitnessRejected ==
    /\ last.result = "Rejected"
    /\ last.stage = "status"
    /\ Len(history) = 2
    /\ history = last.prehist
    /\ order.status = "shipped"

C28_WitnessNoChange ==
    /\ last.result = "Done"
    /\ order.status = last.pre.status
    /\ order.deliverer # last.pre.deliverer
    /\ history = last.prehist
    /\ Len(history) = 3

\* C29: over any sequence of updates, a status change made by a customer
\* goes to under-review, from pending, delivered or failed; a customer never
\* changes the deliverer; only an admin or a manager moves an order to
\* shipped, failed, cancelled or refunded, and only an admin or a delivery
\* actor moves it to delivered. The same holds of every entry the history
\* keeps of the changes.
C29_WhoMovesWhere ==
    /\ (Ran /\ order.status # last.pre.status) =>
          /\ order.status \in {"shipped", "failed", "cancelled", "refunded"} =>
                last.role \in {"admin", "manager"}
          /\ order.status = "delivered" => last.role \in {"admin", "delivery"}
          /\ last.role = "customer" =>
                /\ order.status = "under-review"
                /\ last.pre.status \in {"pending", "delivered", "failed"}
    /\ (last # NoLast /\ last.role = "customer") =>
          order.deliverer = last.pre.deliverer
    /\ \A k \in 2..Len(history) :
          LET role == get_role(history[k].performed_by)
              t == history[k].status
          IN  /\ t \in {"shipped", "failed", "cancelled", "refunded"} =>
                    role \in {"admin", "manager"}
              /\ t = "delivered" => role \in {"admin", "delivery"}
              /\ role = "customer" =>
                    /\ t = "under-review"
                    /\ history[k - 1].status \in {"pending", "delivered", "failed"}

C29_Witness ==
    /\ last.role = "customer"
    /\ last.result = "Done"
    /\ last.pre.status = "failed"
    /\ order.status = "under-review"
    /\ last.data.delivery_address # Absent

C29_WitnessDelivered ==
    /\ last.role = "delivery"
    /\ last.result = "Done"
    /\ last.pre.status = "shipped"
    /\ order.status = "delivered"

C29_WitnessManagerDenied ==
    /\ last.role = "manager"
    /\ last.data.status = "delivered"
    /\ last.pre.status = "shipped"
    /\ last.result = "Rejected"
    /\ last.exc = "PermissionDenied"

C29_WitnessCustomerDeliverer ==
    /\ last.role = "customer"
    /\ last.result = "Done"
    /\ last.intent = "refund"
    /\ last.pre.status = "delivered"
    /\ last.pre.deliverer = "del1"
    /\ order.deliverer = "del1"
    /\ order.status = "under-review"

\* C30: when placements run concurrently, no cart row becomes order items of
\* two orders: two orders of one user never hold items of the same book
\* (no row is added to a cart once the placements have started).
C30_CartRowOrderedOnce ==
    \A i, j \in 1..Len(placed) :
        (i # j /\ placed[i].order.user = placed[j].order.user) =>
            {x.book : x \in placed[i].items}
                \cap {y.book : y \in placed[j].items} = {}

\* C5: every committed status change goes from the status persisted right
\* before its write to a target that is a table edge from that status,
\* authorized for the acting role, also when two requests run at once.
C5_CommitsFollowPersistedStatus ==
    committed.from # committed.to =>
        /\ IsEdge(committed.from, committed.to)
        /\ committed.role \in EdgeRoles(committed.from, committed.to)

====
